---- MODULE Spec2Model ----
(***************************************************************************)
(* Senotype Editor: the Library Service (SenLib) over the senlib Document  *)
(* Store (SenLibMySql).  The model covers the write orchestration          *)
(* (writesubmission, buildsubmissionjson, getprovenanceids,                *)
(* updatesuccessor, writesenotype), the version-tree builder               *)
(* (_getsenotypejtree) and the dehydration of regulating markers           *)
(* (buildregmarkerassertions).                                             *)
(*                                                                         *)
(* Python values: None of an id is None (0), the empty id string is        *)
(* EmptyId (-1); a text value that is parsed by the code (the DOI) is a    *)
(* sequence of tokens wrapped in an optional, so that split and            *)
(* concatenation are computed and not assumed.                             *)
(***************************************************************************)
EXTENDS Integers, Sequences, FiniteSets, TLC

VARIABLES store, last, nops, tree, disciplined, regmarkers, regassertions,
          arg, ret, procs

vars == <<store, last, nops, tree, disciplined, regmarkers, regassertions,
          arg, ret, procs>>

\* The variables of the Library Service over its store.
libVars == <<store, last, nops, tree, disciplined>>

(***************************************************************************)
(* Bounds                                                                  *)
(***************************************************************************)
MaxIds == 3
MaxOps == 4
MaxMarkers == 3
MaxLen == 3
MaxObjects == 2

(***************************************************************************)
(* Values                                                                  *)
(***************************************************************************)
None == 0
EmptyId == 0 - 1
Ids == 1..MaxIds

\* Python truthiness of an id-valued field ("if succ:").
Truthy(x) == x # None /\ x # EmptyId

\* Optional text: Python None, or a str as a sequence of tokens.
NoneText == [isnone |-> TRUE, text |-> <<>>]
Str(s) == [isnone |-> FALSE, text |-> s]

\* bool(x) of an optional text: None and '' are false.
Bool(x) == ~x.isnone /\ x.text # <<>>

DoiPrefix == "https://doi.org/"

Users == {"a@x.org", "b@x.org"}

Actions == {"up_regulates", "down_regulates", "inconclusively_regulates"}
\* A code is a sequence of tokens, the colon being one of them.
Markers == {<<"HGNC", ":", "1">>, <<"HGNC", ":", "2">>}
RegMarkerEntries == [marker : Markers, action : Actions]

RECURSIVE SeqsUpTo(_, _)
SeqsUpTo(S, n) ==
    IF n = 0 THEN {<<>>}
    ELSE LET shorter == SeqsUpTo(S, n - 1)
         IN  shorter \cup {Append(s, e) : s \in {t \in shorter : Len(t) = n - 1}, e \in S}

(***************************************************************************)
(* buildregmarkerassertions (senlib.py 1445-1501)                          *)
(***************************************************************************)
\* The three object lists are Python lists shared by reference with every
\* assertion that was appended for them, so an assertion is kept as the
\* name of its list and read out after the loop.
RegObj(m) == [source |-> "external", code |-> m.marker]

RegBucket(m) ==
    IF m.action = "up_regulates" THEN "up_regulates"
    ELSE IF m.action = "down_regulates" THEN "down_regulates"
    ELSE "inconclusively_regulates"

\* One iteration of "for m in regmarkers": st = [up, down, inc, assertions].
RegLoopBody(st, m) ==
    LET b == RegBucket(m)
        up == IF b = "up_regulates" THEN Append(st.up, RegObj(m)) ELSE st.up
        down == IF b = "down_regulates" THEN Append(st.down, RegObj(m)) ELSE st.down
        inc == IF b = "inconclusively_regulates" THEN Append(st.inc, RegObj(m)) ELSE st.inc
        a1 == IF Len(up) > 0 THEN Append(st.assertions, "up_regulates") ELSE st.assertions
        a2 == IF Len(down) > 0 THEN Append(a1, "down_regulates") ELSE a1
        a3 == IF Len(inc) > 0 THEN Append(a2, "inconclusively_regulates") ELSE a2
    IN  [up |-> up, down |-> down, inc |-> inc, assertions |-> a3]

RECURSIVE RegLoop(_, _)
RegLoop(st, ms) ==
    IF ms = <<>> THEN st ELSE RegLoop(RegLoopBody(st, Head(ms)), Tail(ms))

buildregmarkerassertions(ms) ==
    LET st == RegLoop([up |-> <<>>, down |-> <<>>, inc |-> <<>>, assertions |-> <<>>], ms)
        objs(t) == IF t = "up_regulates" THEN st.up
                   ELSE IF t = "down_regulates" THEN st.down ELSE st.inc
    IN  [i \in 1..Len(st.assertions) |->
            [predicate |-> [term |-> st.assertions[i]], objects |-> objs(st.assertions[i])]]

\* The rows of assertion_predicate_object for the fields of the model:
\* object_form_field, predicate_term and object_source.
AssertionFields == <<"taxon", "citation">>

get_field_metadata(field_name, field_property) ==
    IF field_name = "taxon"
    THEN (IF field_property = "predicate_term" THEN "in_taxon" ELSE "valueset")
    ELSE (IF field_property = "predicate_term" THEN "has_citation" ELSE "external")

\* buildsimpleassertions (senlib.py 1334-1387): one assertion for each field
\* of an assertion that has values, the code of an object being the field
\* value as it was submitted.
buildsimpleassertions(form) ==
    LET one(key) ==
            IF Len(form[key]) > 0
            THEN <<[predicate |-> [term |-> get_field_metadata(key, "predicate_term")],
                    objects |-> [k \in DOMAIN form[key] |->
                                    [source |-> get_field_metadata(key, "object_source"),
                                     code |-> form[key][k]]]]>>
            ELSE <<>>
    IN  one(AssertionFields[1]) \o one(AssertionFields[2])

\* buildassertions (senlib.py 1566-1590) for a form without context
\* values: simple assertions, then those of the regulating markers.
buildassertions(form) ==
    buildsimpleassertions(form) \o buildregmarkerassertions(form.regmarker)

(***************************************************************************)
(* Document Store (senlib_mysql.py)                                        *)
(***************************************************************************)
EmptyJson == [senotype |-> [id |-> None], empty |-> TRUE]

getsenotypejson(db, id) == IF id \in DOMAIN db THEN db[id] ELSE EmptyJson

\* writesenotype that logs the DatabaseError and returns.
writesenotype_swallow(db, senotypeid, senotypejson, dbok) ==
    IF dbok
    THEN [db |-> [i \in (DOMAIN db) \cup {senotypeid} |->
                    IF i = senotypeid THEN senotypejson ELSE db[i]],
          raised |-> ""]
    ELSE [db |-> db, raised |-> ""]

\* writesenotype that replaces the rows of the table by the new row.
writesenotype_replace(db, senotypeid, senotypejson, dbok) ==
    IF dbok
    THEN [db |-> [i \in {senotypeid} |-> senotypejson], raised |-> ""]
    ELSE [db |-> db, raised |-> "abort500"]

\* Upsert; dbok = FALSE is a DatabaseError, answered by abort(500).
writesenotype(db, senotypeid, senotypejson, dbok) ==
    IF dbok
    THEN [db |-> [i \in (DOMAIN db) \cup {senotypeid} |->
                    IF i = senotypeid THEN senotypejson ELSE db[i]],
          raised |-> ""]
    ELSE [db |-> db, raised |-> "abort500"]

(***************************************************************************)
(* Write orchestration (senlib.py 1296-1332, 1593-1693)                    *)
(***************************************************************************)
\* getprovenanceids that reads the two provenance keys the wrong way round
\* on an update.
getprovenanceids_swapped(db, senotypeid, predecessorid) ==
    LET senotypejson == getsenotypejson(db, senotypeid)
    IN  IF senotypeid \in DOMAIN db
        THEN IF predecessorid = None
             THEN [predecessor |-> senotypejson.senotype.provenance.successor,
                   successor |-> senotypejson.senotype.provenance.predecessor]
             ELSE [predecessor |-> predecessorid,
                   successor |-> senotypejson.senotype.provenance.successor]
        ELSE [predecessor |-> predecessorid, successor |-> None]

\* getprovenanceids that takes every target for a new senotype.
getprovenanceids_asnew(db, senotypeid, predecessorid) ==
    [predecessor |-> predecessorid, successor |-> None]

getprovenanceids(db, senotypeid, predecessorid) ==
    LET senotypejson == getsenotypejson(db, senotypeid)
    IN  IF senotypeid \in DOMAIN db
        THEN [predecessor |-> IF predecessorid = None
                              THEN senotypejson.senotype.provenance.predecessor
                              ELSE predecessorid,
              successor |-> senotypejson.senotype.provenance.successor]
        ELSE [predecessor |-> predecessorid, successor |-> None]

\* str.split(' (')[0]: the tokens before the first ' ('.
RECURSIVE SplitHead(_)
SplitHead(s) ==
    IF s = <<>> \/ Head(s) = " (" THEN <<>> ELSE <<Head(s)>> \o SplitHead(Tail(s))

ParseDoi(doi) ==
    IF ~doi.isnone THEN Str(<<DoiPrefix>> \o SplitHead(doi.text)) ELSE NoneText

buildsubmissionjson(db, form, senotypeid, predecessorid) ==
    [senotype |-> [id |-> senotypeid,
                   provenance |-> getprovenanceids(db, senotypeid, predecessorid),
                   doi |-> ParseDoi(form.doi),
                   name |-> form.senotypename,
                   definition |-> form.senotypedescription],
     submitter |-> [email |-> form.submitteremail],
     assertions |-> buildassertions(form)]

\* updatesuccessor that writes the predecessor back as it read it.
updatesuccessor_nolink(db, senotypeid, successorid, dbok) ==
    IF senotypeid \notin DOMAIN db
    THEN [db |-> db, raised |-> "KeyError"]
    ELSE writesenotype(db, senotypeid, getsenotypejson(db, senotypeid), dbok)

\* updatesuccessor: a predecessor that is not stored makes
\* revisedjson['senotype'] raise KeyError before any write.
updatesuccessor(db, senotypeid, successorid, dbok) ==
    IF senotypeid \notin DOMAIN db
    THEN [db |-> db, raised |-> "KeyError"]
    ELSE LET revisedjson == getsenotypejson(db, senotypeid)
             revised == [revisedjson EXCEPT !.senotype.provenance.successor = successorid]
         IN  writesenotype(db, senotypeid, revised, dbok)

\* writesubmission without the removal of the DOI.
removedoi_keep(submissionjson, new_version_id) == submissionjson

\* "If this is a new version ... remove the DOI" (senlib.py 1669-1670).
removedoi(submissionjson, new_version_id) ==
    IF new_version_id # EmptyId
    THEN [submissionjson EXCEPT !.senotype.doi = NoneText]
    ELSE submissionjson

\* writesubmission(form_data, new_version_id): the store afterwards, the
\* exception that ended the call ("" when it returned) and the number of
\* upserts that were committed.  dbfail is the upsert of this call (1 or 2)
\* that meets a DatabaseError, 0 for none.
writesubmission(db, form, new_version_id, dbfail) ==
    LET senotypeid == IF new_version_id = EmptyId THEN form.senotypeid ELSE new_version_id
        predecessorid == IF new_version_id = EmptyId THEN None ELSE form.senotypeid
        submissionjson == removedoi(buildsubmissionjson(db, form, senotypeid, predecessorid),
                                    new_version_id)
        w1 == writesenotype(db, senotypeid, submissionjson, dbfail # 1)
    IN  IF w1.raised # ""
        THEN [db |-> db, raised |-> w1.raised, upserts |-> 0]
        ELSE IF new_version_id = EmptyId
        THEN [db |-> w1.db, raised |-> "", upserts |-> 1]
        ELSE LET w2 == updatesuccessor(w1.db, predecessorid, new_version_id, dbfail # 2)
             IN  [db |-> w2.db, raised |-> w2.raised,
                  upserts |-> IF w2.raised = "" THEN 2 ELSE 1]

(***************************************************************************)
(* Version tree builder: _getsenotypejtree (senlib.py 43-284)              *)
(***************************************************************************)
RECURSIVE SortedSeq(_)
SortedSeq(S) ==
    IF S = {} THEN <<>>
    ELSE LET m == CHOOSE x \in S : \A y \in S : x <= y
         IN  <<m>> \o SortedSeq(S \ {m})

\* getallsenotypejsons: the rows of the senotype table, in key order.
getallsenotypejsons(db) == [k \in 1..Cardinality(DOMAIN db) |-> db[SortedSeq(DOMAIN db)[k]]]

\* The ids in the order in which the maps were filled (dict order).
senotype_ids(db) ==
    LET jsons == getallsenotypejsons(db)
    IN  [k \in 1..Len(jsons) |-> jsons[k].senotype.id]

predecessor_map(db) ==
    [i \in {j \in DOMAIN db : Truthy(db[j].senotype.provenance.predecessor)} |->
        db[i].senotype.provenance.predecessor]

successor_map(db) ==
    [i \in {j \in DOMAIN db : Truthy(db[j].senotype.provenance.successor)} |->
        db[i].senotype.provenance.successor]

\* oldest_ids taken from the successor map: the latest versions.
oldest_ids_latest(db) ==
    SelectSeq(senotype_ids(db), LAMBDA i : i \notin DOMAIN successor_map(db))

oldest_ids(db) ==
    SelectSeq(senotype_ids(db), LAMBDA i : i \notin DOMAIN predecessor_map(db))

\* A walk that is deeper than the number of stored records has met a
\* record twice and never returns: Python ends it with RecursionError.
RecursionLimit(db) == Cardinality(DOMAIN db)

\* assign_versions_from_oldest(id_, version) on version_map vm.
RECURSIVE assign_versions_from_oldest(_, _, _, _)
assign_versions_from_oldest(db, id, version, vm) ==
    IF version > RecursionLimit(db) THEN [err |-> "RecursionError", version_map |-> vm]
    ELSE IF id \notin DOMAIN db THEN [err |-> "KeyError", version_map |-> vm]
    ELSE LET vm1 == [i \in (DOMAIN vm) \cup {id} |-> IF i = id THEN version ELSE vm[i]]
             succ == db[id].senotype.provenance.successor
         IN  IF Truthy(succ)
             THEN assign_versions_from_oldest(db, succ, version + 1, vm1)
             ELSE [err |-> "", version_map |-> vm1]

\* "for oid in oldest_ids: assign_versions_from_oldest(oid, 1)".
RECURSIVE assign_all(_, _, _)
assign_all(db, oids, acc) ==
    IF acc.err # "" \/ oids = <<>> THEN acc
    ELSE assign_all(db, Tail(oids), assign_versions_from_oldest(db, Head(oids), 1, acc.version_map))

version_map(db) == assign_all(db, oldest_ids(db), [err |-> "", version_map |-> <<>>])

\* build_node without the "not" of editable.
build_node_noteditable(json, version, userid) ==
    LET editable == Bool(json.senotype.doi)
        authorized == json.submitter.email = userid
    IN  [id |-> json.senotype.id,
         version |-> version,
         classes |-> (IF editable THEN {"editable"} ELSE {}) \cup
                     (IF authorized THEN {"authorized"} ELSE {}),
         state |-> IF editable /\ authorized THEN "editable"
                   ELSE IF editable /\ ~authorized THEN "you are not unauthorized to edit"
                   ELSE "published; read-only"]

\* The node of one senotype JSON, before the children are attached.
build_node(json, version, userid) ==
    LET editable == ~Bool(json.senotype.doi)
        authorized == json.submitter.email = userid
    IN  [id |-> json.senotype.id,
         version |-> version,
         classes |-> (IF editable THEN {"editable"} ELSE {}) \cup
                     (IF authorized THEN {"authorized"} ELSE {}),
         state |-> IF editable /\ authorized THEN "editable"
                   ELSE IF editable /\ ~authorized THEN "you are not unauthorized to edit"
                   ELSE "published; read-only"]

\* children of a node: the ids whose successor is the node, in dict order.
node_children(db, id) ==
    SelectSeq(senotype_ids(db), LAMBDA i : /\ Truthy(db[i].senotype.provenance.successor)
                                           /\ db[i].senotype.provenance.successor = id)

\* latest_ids taken from the predecessor map: the oldest versions.
latest_ids_oldest(db) ==
    SelectSeq(senotype_ids(db), LAMBDA i : ~Truthy(db[i].senotype.provenance.predecessor))

latest_ids(db) ==
    SelectSeq(senotype_ids(db), LAMBDA i : ~Truthy(db[i].senotype.provenance.successor))

group_node(db, vm, id) ==
    [id |-> id, name |-> db[id].senotype.name, versions |-> vm[id],
     plural |-> vm[id] > 1, children |-> <<id>>]

NewNode == [id |-> "new", classes |-> {"editable", "authorized"}, children |-> <<>>]

NoTree == [built |-> FALSE, err |-> "", userid |-> "", version_map |-> <<>>,
           node_map |-> <<>>, children |-> <<>>, grouped_roots |-> <<>>,
           new_node |-> NewNode,
           senotype_parent |-> [id |-> "Senotype", children |-> <<>>]]

\* _getsenotypejtree for the instance of user userid; err names the
\* exception when the builder does not return.
getsenotypejtree(db, userid) ==
    LET vmr == version_map(db)
        vm == vmr.version_map
        latest == latest_ids(db)
        grouped_roots == [k \in 1..Len(latest) |-> group_node(db, vm, latest[k])]
    IN  IF vmr.err # ""
        THEN [NoTree EXCEPT !.built = TRUE, !.err = vmr.err, !.userid = userid]
        ELSE IF \E i \in DOMAIN db : i \notin DOMAIN vm
        THEN [NoTree EXCEPT !.built = TRUE, !.err = "KeyError", !.userid = userid]
        ELSE [built |-> TRUE, err |-> "", userid |-> userid,
              version_map |-> vm,
              node_map |-> [i \in DOMAIN db |-> build_node(db[i], vm[i], userid)],
              children |-> [i \in DOMAIN db |-> node_children(db, i)],
              grouped_roots |-> grouped_roots,
              new_node |-> NewNode,
              senotype_parent |-> [id |-> "Senotype",
                                   children |-> <<NewNode>> \o grouped_roots]]

(***************************************************************************)
(* Display text (senlib.py 456-468)                                        *)
(***************************************************************************)
\* A Python str whose characters matter is a sequence of one-character
\* strings.
Ellipsis == <<".", ".", ".">>

\* s[0:n] for n >= 0.
Slice(s, n) == SubSeq(s, 1, IF n < Len(s) THEN n ELSE Len(s))

\* truncateddisplaytext that puts the ellipsis on every text.
truncateddisplaytext_allell(displayid, description, trunclength) ==
    LET tl == IF trunclength < 0 THEN Len(description) ELSE trunclength
    IN  displayid \o <<" ", "(">> \o Slice(description, tl) \o Ellipsis \o <<")">>

truncateddisplaytext(displayid, description, trunclength) ==
    LET tl == IF trunclength < 0 THEN Len(description) ELSE trunclength
        ell == IF tl < Len(description) THEN Ellipsis ELSE <<>>
    IN  displayid \o <<" ", "(">> \o Slice(description, tl) \o ell \o <<")">>

(***************************************************************************)
(* External Term Resolver (requestretry.py 18-63) and the hydration of     *)
(* externally linked objects (senlib.py 395-425, 541-584)                  *)
(***************************************************************************)
PmidCodes == {<<"PMID", ":", "1">>, <<"PMID", ":", "2">>}
MarkerCodes == Markers \cup {<<"UNIPROTKB", ":", "P1">>}

HasColon(code) == \E k \in DOMAIN code : code[k] = ":"

\* The label that the service holds for a code.
Label(code) == <<"l">> \o SubSeq(code, Len(code), Len(code))
Unknown == <<"u", "n", "k", "n", "o", "w", "n">>

\* What the transport and the service do with one GET:
\*   "json"             a JSON answer that holds the code;
\*   "unknown"          a JSON answer that does not hold the code;
\*   "ConnectionError"  no connection after the retries;
\*   "RetryError"       429 or 5xx answers until the retries were used up;
\*   "notjson"          an answer with status 200 whose body is not JSON.
Transports == {"json", "unknown", "ConnectionError", "RetryError", "notjson"}

\* getresponse(url, format='json'): the exception that leaves the call
\* ("" when it returns) and the value returned.  ConnectionError is raised
\* again; any other exception of session.get reaches r.raise_for_status()
\* with r unbound; a body that is not JSON reaches it with a status that
\* does not raise, and the call returns None.
getresponse(transport) ==
    IF transport = "json" THEN [raised |-> "", value |-> "json"]
    ELSE IF transport = "unknown" THEN [raised |-> "", value |-> "unknown"]
    ELSE IF transport = "ConnectionError" THEN [raised |-> "ConnectionError", value |-> "None"]
    ELSE IF transport = "RetryError" THEN [raised |-> "UnboundLocalError", value |-> "None"]
    ELSE [raised |-> "", value |-> "None"]

\* getcitationobjects(rawobjects): "for o in rawobjects", oret so far.
RECURSIVE getcitationobjects(_, _, _)
getcitationobjects(rawobjects, svc, oret) ==
    IF rawobjects = <<>> THEN [raised |-> "", objects |-> oret]
    ELSE LET code == Head(rawobjects).code
             citation == getresponse(svc[code])
         IN  IF ~HasColon(code) THEN [raised |-> "IndexError", objects |-> <<>>]
             ELSE IF citation.raised # "" THEN [raised |-> citation.raised, objects |-> <<>>]
             ELSE IF citation.value = "None"
             THEN [raised |-> "AttributeError", objects |-> <<>>]
             ELSE LET title == IF citation.value = "unknown" THEN Unknown ELSE Label(code)
                  IN  getcitationobjects(Tail(rawobjects), svc,
                                         Append(oret, [code |-> code, term |-> Str(title)]))

\* getmarkerobjects(rawobjects): "for o in rawobjects", oret so far.
RECURSIVE getmarkerobjects(_, _, _)
getmarkerobjects(rawobjects, svc, oret) ==
    IF rawobjects = <<>> THEN [raised |-> "", objects |-> oret]
    ELSE LET code == Head(rawobjects).code
             resp == getresponse(svc[code])
         IN  IF code = <<>> \/ ~HasColon(code)
             THEN getmarkerobjects(Tail(rawobjects), svc,
                                   Append(oret, [code |-> code, term |-> NoneText]))
             ELSE IF resp.raised # "" THEN [raised |-> resp.raised, objects |-> <<>>]
             ELSE LET term == IF resp.value = "json" THEN Label(code) ELSE code
                  IN  getmarkerobjects(Tail(rawobjects), svc,
                                       Append(oret, [code |-> code, term |-> Str(term)]))

DiagnosisCodes == {<<"DOID", ":", "1">>, <<"DOID", ":", "2">>}

\* getdiagnosisobjects(rawobjects): "for o in rawobjects", oret so far.  The
\* service answers with a list, empty for a code that it does not hold;
\* len() of the None of a body that is not JSON raises TypeError.
RECURSIVE getdiagnosisobjects(_, _, _)
getdiagnosisobjects(rawobjects, svc, oret) ==
    IF rawobjects = <<>> THEN [raised |-> "", objects |-> oret]
    ELSE LET code == Head(rawobjects).code
             diagnoses == getresponse(svc[code])
         IN  IF diagnoses.raised # "" THEN [raised |-> diagnoses.raised, objects |-> <<>>]
             ELSE IF diagnoses.value = "None" THEN [raised |-> "TypeError", objects |-> <<>>]
             ELSE IF diagnoses.value = "json"
             THEN getdiagnosisobjects(Tail(rawobjects), svc,
                                      Append(oret, [code |-> code, term |-> Str(Label(code))]))
             ELSE getdiagnosisobjects(Tail(rawobjects), svc, oret)

(***************************************************************************)
(* Hydration of a stored senotype into the Edit form (senlib.py 290-490,   *)
(* 656-677, 837-1019)                                                      *)
(***************************************************************************)
\* The Edit form without data.
NoForm ==
    [senotypeid |-> None, senotypename |-> "", senotypedescription |-> "",
     doi |-> NoneText, submitteremail |-> "", taxon |-> <<>>, citation |-> <<>>,
     regmarker |-> <<>>]

TaxonCodes == {<<"NCBI", ":", "9606">>, <<"NCBI", ":", "10090">>}

\* The in_taxon rows of senotype_editor_valuesets: valueset_code and
\* valueset_term.
Valueset == (<<"NCBI", ":", "9606">> :> <<"h", "u", "m", "a", "n">>)

\* getsenlibterm: the term of a code, None for a code without a row.
getsenlibterm(predicate, code) ==
    IF code \in DOMAIN Valueset THEN Str(Valueset[code]) ELSE NoneText

\* An optional text inside an f-string.
Format(x) == IF x.isnone THEN <<"N", "o", "n", "e">> ELSE x.text

\* getassertionobjects: term is f'{code} ({term})'.
getassertionobjects(pred, rawobjects) ==
    [k \in DOMAIN rawobjects |->
        [code |-> rawobjects[k].code,
         term |-> Str(rawobjects[k].code \o <<" ", "(">>
                      \o Format(getsenlibterm(pred, rawobjects[k].code)) \o <<")">>)]]

\* getstoredsimpleassertiondata: the objects of the first assertion whose
\* predicate is the one asked for, hydrated by the kind of the predicate.
RECURSIVE getstoredsimpleassertiondata(_, _, _)
getstoredsimpleassertiondata(assertions, predicate, svc) ==
    IF assertions = <<>> THEN [raised |-> "", objects |-> <<>>]
    ELSE LET assertion == Head(assertions)
             rawobjects == assertion.objects
         IN  IF assertion.predicate.term # predicate
             THEN getstoredsimpleassertiondata(Tail(assertions), predicate, svc)
             ELSE IF predicate = "has_citation"
             THEN getcitationobjects(rawobjects, svc, <<>>)
             ELSE IF predicate = "has_characterizing_marker_set"
             THEN getmarkerobjects(rawobjects, svc, <<>>)
             ELSE [raised |-> "", objects |-> getassertionobjects(predicate, rawobjects)]

\* getregmarkerobjects: "for assertion in assertions", listret so far.
RECURSIVE getregmarkerobjects(_, _, _)
getregmarkerobjects(assertions, svc, listret) ==
    IF assertions = <<>> THEN [raised |-> "", objects |-> listret]
    ELSE LET assertion == Head(assertions)
             predicate_term == assertion.predicate.term
             r == getmarkerobjects(assertion.objects, svc, <<>>)
         IN  IF predicate_term \notin Actions
             THEN getregmarkerobjects(Tail(assertions), svc, listret)
             ELSE IF r.raised # "" THEN r
             ELSE getregmarkerobjects(
                      Tail(assertions), svc,
                      [k \in DOMAIN r.objects |->
                          [code |-> r.objects[k].code, term |-> r.objects[k].term,
                           type |-> predicate_term]])

\* getdoi: '' for no doi, else f'{doi_url} ({title})' with the title that
\* DataCite answers.
getdoi(senotype) ==
    IF senotype.doi.isnone THEN Str(<<>>)
    ELSE Str(senotype.doi.text \o <<" (", "title", ")">>)

\* The display text of a hydrated object; len(None) raises TypeError.
DisplayText(item, trunclength) ==
    truncateddisplaytext(item.code, item.term.text, trunclength)

\* fetchfromdb(senotypeid, form): the exception that leaves the call and
\* the form as it was filled.
fetchfromdb(db, senotypeid, svc) ==
    LET dictsenlib == getsenotypejson(db, senotypeid)
        assertions == dictsenlib.assertions
        taxonlist == getstoredsimpleassertiondata(assertions, "in_taxon", svc)
        citationlist == getstoredsimpleassertiondata(assertions, "has_citation", svc)
        regmarkerlist == getregmarkerobjects(assertions, svc, <<>>)
        raised == IF senotypeid \notin DOMAIN db THEN "AttributeError"
                  ELSE IF citationlist.raised # "" THEN citationlist.raised
                  ELSE IF regmarkerlist.raised # "" THEN regmarkerlist.raised
                  ELSE IF \E k \in DOMAIN regmarkerlist.objects :
                             regmarkerlist.objects[k].term.isnone
                  THEN "TypeError"
                  ELSE ""
    IN  IF raised # "" THEN [raised |-> raised, form |-> NoForm]
        ELSE [raised |-> "",
              form |-> [senotypeid |-> senotypeid,
                        senotypename |-> dictsenlib.senotype.name,
                        senotypedescription |-> dictsenlib.senotype.definition,
                        doi |-> getdoi(dictsenlib.senotype),
                        submitteremail |-> dictsenlib.submitter.email,
                        taxon |-> [k \in DOMAIN taxonlist.objects |->
                                      taxonlist.objects[k].term.text],
                        citation |-> [k \in DOMAIN citationlist.objects |->
                                         DisplayText(citationlist.objects[k], 25)],
                        regmarker |-> [k \in DOMAIN regmarkerlist.objects |->
                                          [marker |-> DisplayText(regmarkerlist.objects[k], 50),
                                           action |-> regmarkerlist.objects[k].type]]]]

(***************************************************************************)
(* The update route (update.py 47-106, 110-253)                            *)
(***************************************************************************)
\* The fields that EditForm declares (editform.py 185-243).
EditFormFields ==
    {"senotypeid", "senotypename", "senotypedescription", "doi", "provenance",
     "submitterfirst", "submitterlast", "submitteremail", "taxon", "location",
     "celltype", "microenvironment", "hallmark", "inducer", "assay",
     "agevalue", "agelowerbound", "ageupperbound", "ageunit",
     "bmivalue", "bmilowerbound", "bmiupperbound", "bmiunit",
     "sex", "citation", "origin", "dataset", "marker", "regmarker", "diagnosis"}

\* The lists of the form, of those that validate_form requires to hold a
\* value.
fieldlist_prefixes == {"taxon", "citation", "regmarker"}

\* validate_form: the errors of form.validate() and of the empty lists;
\* then it reads form.ftu_tree_json, which raises AttributeError when the
\* form has no field of that name.
validate_form(form) ==
    LET standard == {f \in {"senotypename", "senotypedescription", "submitteremail"} :
                        form[f] = ""}
        errors == standard \cup {p \in fieldlist_prefixes : form[p] = <<>>}
    IN  IF "ftu_tree_json" \notin EditFormFields
        THEN [raised |-> "AttributeError", errors |-> errors]
        ELSE [raised |-> "", errors |-> errors]

\* The keyword arguments that writesubmission accepts (senlib.py 1641).
writesubmission_kwargs == {"form_data", "new_version_id"}

\* An update route that writes the submission before it validates it.
update_writefirst(db, form, new_version_id, dbfail) ==
    LET v == validate_form(form)
        w == writesubmission(db, form, new_version_id, dbfail)
    IN  IF v.raised # ""
        THEN [db |-> w.db, outcome |-> v.raised]
        ELSE IF v.errors # {}
        THEN [db |-> w.db, outcome |-> "invalid"]
        ELSE IF "ftu_tree" \notin writesubmission_kwargs
        THEN [db |-> w.db, outcome |-> "TypeError"]
        ELSE [db |-> w.db, outcome |-> IF w.raised = "" THEN "ok" ELSE w.raised]

\* The update route from the validation on (update.py 182-253): the store
\* afterwards and how the request ended.  The call of writesubmission
\* passes the keyword ftu_tree.
update(db, form, new_version_id, dbfail) ==
    LET v == validate_form(form)
        w == writesubmission(db, form, new_version_id, dbfail)
    IN  IF v.raised # ""
        THEN [db |-> db, outcome |-> v.raised]
        ELSE IF v.errors # {}
        THEN [db |-> db, outcome |-> "invalid"]
        ELSE IF "ftu_tree" \notin writesubmission_kwargs
        THEN [db |-> db, outcome |-> "TypeError"]
        ELSE [db |-> w.db, outcome |-> IF w.raised = "" THEN "ok" ELSE w.raised]

(***************************************************************************)
(* Dehydration of the context fields (senlib.py 1389-1443)                 *)
(***************************************************************************)
\* form_data.get(key): None for a key that the form does not have.
FormGet(form_data, key) ==
    IF key \in DOMAIN form_data THEN form_data[key] ELSE NoneText

\* One pass of "for index, row in df.iterrows()", to the return statement
\* that ends it.
ContextLoopBody(form_data, row) ==
    LET context_object_name == row.context_name
        value == FormGet(form_data, context_object_name)
        lowerbound == FormGet(form_data, context_object_name \o <<"lowerbound">>)
        upperbound == FormGet(form_data, context_object_name \o <<"upperbound">>)
        unit == FormGet(form_data, context_object_name \o <<"unit">>)
        obj == [term |-> context_object_name, code |-> row.code, value |-> value,
                lowerbound |-> lowerbound, upperbound |-> upperbound, unit |-> unit]
    IN  IF ~value.isnone
        THEN <<[predicate |-> [term |-> "has_context"], objects |-> <<obj>>]>>
        ELSE <<>>

\* buildcontextassertions: "return assertions" is a statement of the loop
\* body, so the call returns at the end of the pass for the first row; with
\* no row the function ends without a return statement and gives None.
buildcontextassertions(form_data, df) ==
    IF df = <<>> THEN [isnone |-> TRUE, assertions |-> <<>>]
    ELSE [isnone |-> FALSE, assertions |-> ContextLoopBody(form_data, Head(df))]

(***************************************************************************)
(* State machine                                                           *)
(***************************************************************************)
\* The submitted forms: an unpublished senotype of user a, and a senotype
\* of user b whose doi field carries the display form "doi (title)".
FormContents ==
    { [senotypename |-> "n1", senotypedescription |-> "d1", doi |-> NoneText,
       submitteremail |-> "a@x.org", taxon |-> <<>>, citation |-> <<>>,
       regmarker |-> <<>>],
      [senotypename |-> "n2", senotypedescription |-> "d2",
       doi |-> Str(<<"10.1", " (", "title", ")">>),
       submitteremail |-> "b@x.org", taxon |-> <<>>, citation |-> <<>>,
       regmarker |-> <<[marker |-> <<"HGNC", ":", "1">>, action |-> "up_regulates"]>>] }

MkForm(id, c) ==
    [senotypeid |-> id, senotypename |-> c.senotypename,
     senotypedescription |-> c.senotypedescription, doi |-> c.doi,
     submitteremail |-> c.submitteremail, taxon |-> c.taxon,
     citation |-> c.citation, regmarker |-> c.regmarker]

Forms == {MkForm(id, c) : id \in Ids, c \in FormContents}

NotDehydrated == [done |-> FALSE, assertions |-> <<>>]

\* No call of a function on inputs of its own, and no result of one.
NoArg == [fn |-> "none"]
NoRet == [done |-> FALSE]

\* The last call.  The ids, the user and the form are those of the call
\* when it committed an upsert; dbfail is the upsert that met a
\* DatabaseError; repeated says that the call before it was the same call
\* and returned.
NoCall == [op |-> "none", userid |-> "", senotypeid |-> None, predecessorid |-> None,
           form |-> NoForm, dbfail |-> 0, outcome |-> "", upserts |-> 0,
           repeated |-> FALSE]

Init ==
    /\ store = <<>>
    /\ last = NoCall
    /\ nops = 0
    /\ tree = NoTree
    /\ disciplined = TRUE
    /\ regmarkers = <<>>
    /\ regassertions = NotDehydrated
    /\ arg = NoArg
    /\ ret = NoRet
    /\ procs = <<>>

\* getnewsenotypeid: the uuid-api answers with an id that is not in use.
\* Ids are opaque, so the id minted is the least of the unused ones.
getnewsenotypeid(db) ==
    LET unused == Ids \ DOMAIN db
    IN  {q \in unused : \A r \in unused : q <= r}

\* A head of a chain: stored, with no successor.
IsHead(db, id) == id \in DOMAIN db /\ ~Truthy(db[id].senotype.provenance.successor)

\* One call of writesubmission on the SenLib instance of user userid.
WriteSubmission(userid, form, new_version_id, dbfail) ==
    LET r == writesubmission(store, form, new_version_id, dbfail)
        isnew == new_version_id # EmptyId
        op == IF isnew THEN "new_version" ELSE "update"
        senotypeid == IF isnew THEN new_version_id ELSE form.senotypeid
    IN  /\ nops < MaxOps
        /\ nops' = nops + 1
        /\ store' = r.db
        /\ last' = IF r.upserts = 0
                   THEN [NoCall EXCEPT !.op = op, !.dbfail = dbfail, !.outcome = r.raised]
                   ELSE [op |-> op,
                         userid |-> userid,
                         senotypeid |-> senotypeid,
                         predecessorid |-> IF isnew THEN form.senotypeid ELSE None,
                         form |-> form,
                         dbfail |-> dbfail,
                         outcome |-> IF r.raised = "" THEN "ok" ELSE r.raised,
                         upserts |-> r.upserts,
                         repeated |-> /\ last.op = op
                                      /\ last.outcome = "ok"
                                      /\ last.senotypeid = senotypeid
                                      /\ last.form = form]
        /\ disciplined' = (/\ disciplined
                           /\ r.raised = ""
                           /\ isnew => (/\ IsHead(store, form.senotypeid)
                                        /\ new_version_id \notin DOMAIN store))
        /\ tree' = NoTree
        /\ UNCHANGED <<regmarkers, regassertions, arg, ret, procs>>

\* An in-place write: update of a stored senotype (update.py 165), or a new
\* senotype under the id that was minted for it (update.py 149-151).
Update ==
    \E userid \in Users, form \in Forms, dbfail \in {0, 1} :
        /\ form.senotypeid \in (DOMAIN store) \cup getnewsenotypeid(store)
        /\ WriteSubmission(userid, form, EmptyId, dbfail)

\* setuserassubmitter that leaves the submitter of the form.
setuserassubmitter_keep(form, userid) == form

\* setuserassubmitter (senlib.py 1695-1704): the user of the session
\* becomes the submitter of the form.
setuserassubmitter(form, userid) == [form EXCEPT !.submitteremail = userid]

\* A new version q of the senotype form.senotypeid, which is a version
\* that the user selected among the stored ones (update.py 131-137).  q is
\* a newly minted id (update.py 162) and the route makes the user of the
\* session the submitter of the form (update.py 174-176) before it writes.
NewVersion ==
    \E userid \in Users, form \in Forms, q \in getnewsenotypeid(store),
       dbfail \in {0, 1, 2} :
        /\ form.senotypeid \in DOMAIN store
        /\ WriteSubmission(userid, setuserassubmitter(form, userid), q, dbfail)

\* A request to the update route whose form does not validate
\* (update.py 225-253): flash, redirect, no write.
UpdateInvalid ==
    /\ last' = [NoCall EXCEPT !.op = "validate", !.outcome = "invalid"]
    /\ tree' = NoTree
    /\ UNCHANGED <<store, nops, disciplined, regmarkers, regassertions, arg, ret, procs>>

\* A request that builds the senotype tree for user userid and shows it.
BuildTree ==
    \E userid \in Users :
        /\ tree' = getsenotypejtree(store, userid)
        /\ last' = [NoCall EXCEPT !.op = "tree", !.userid = userid,
                                  !.outcome = IF tree'.err = "" THEN "ok" ELSE tree'.err]
        /\ UNCHANGED <<store, nops, disciplined, regmarkers, regassertions, arg, ret, procs>>

\* A request that loads a stored senotype into the Edit form, every
\* resolver answering.
Fetch ==
    \E senotypeid \in DOMAIN store :
        LET f == fetchfromdb(store, senotypeid, [c \in PmidCodes \cup MarkerCodes |-> "json"])
        IN  /\ last' = [NoCall EXCEPT !.op = "fetch", !.senotypeid = senotypeid,
                                      !.form = f.form,
                                      !.outcome = IF f.raised = "" THEN "ok" ELSE f.raised]
            /\ tree' = NoTree
            /\ UNCHANGED <<store, nops, disciplined, regmarkers, regassertions,
                           arg, ret, procs>>

Next == Update \/ NewVersion \/ UpdateInvalid \/ BuildTree \/ Fetch

Spec == Init /\ [][Next]_vars

(***************************************************************************)
(* Dehydration of a submitted regmarker list, on its own                   *)
(***************************************************************************)
InitReg ==
    /\ store = <<>>
    /\ last = NoCall
    /\ nops = 0
    /\ tree = NoTree
    /\ disciplined = TRUE
    /\ regmarkers \in SeqsUpTo(RegMarkerEntries, MaxMarkers)
    /\ regassertions = NotDehydrated
    /\ arg = NoArg
    /\ ret = NoRet
    /\ procs = <<>>

Dehydrate ==
    /\ ~regassertions.done
    /\ regassertions' = [done |-> TRUE, assertions |-> buildregmarkerassertions(regmarkers)]
    /\ UNCHANGED <<store, last, nops, tree, disciplined, regmarkers, arg, ret, procs>>

NextReg == Dehydrate

SpecReg == InitReg /\ [][NextReg]_vars

(***************************************************************************)
(* truncateddisplaytext on inputs of its own                               *)
(***************************************************************************)
DisplayIds == {<<"G", "O", ":", "0", "0", "1">>, <<"G", "O", ":", "0", "0", "2">>}
DescriptionChars == {"a", "b"}

\* The two calls of the documentation.
TruncExample1 ==
    [fn |-> "truncateddisplaytext", displayid |-> <<"G", "O", ":", "0", "0", "1">>,
     description |-> <<"a", " ", "v", "e", "r", "y", " ", "l", "o", "n", "g", " ", "d", "e", "s", "c", "r", "i", "p", "t", "i", "o", "n", " ", "t", "e", "x", "t">>,
     trunclength |-> 10]
TruncExample2 ==
    [fn |-> "truncateddisplaytext", displayid |-> <<"G", "O", ":", "0", "0", "2">>,
     description |-> <<"s", "h", "o", "r", "t">>, trunclength |-> 10]

TruncArgs ==
    [fn : {"truncateddisplaytext"}, displayid : DisplayIds,
     description : SeqsUpTo(DescriptionChars, MaxLen),
     trunclength : (0 - 1)..(MaxLen + 1)]
    \cup {TruncExample1, TruncExample2}

InitTrunc ==
    /\ store = <<>>
    /\ last = NoCall
    /\ nops = 0
    /\ tree = NoTree
    /\ disciplined = TRUE
    /\ regmarkers = <<>>
    /\ regassertions = NotDehydrated
    /\ arg \in TruncArgs
    /\ ret = NoRet
    /\ procs = <<>>

Truncate ==
    /\ ~ret.done
    /\ ret' = [done |-> TRUE,
               text |-> truncateddisplaytext(arg.displayid, arg.description, arg.trunclength)]
    /\ UNCHANGED <<libVars, regmarkers, regassertions, arg, procs>>

NextTrunc == Truncate

SpecTrunc == InitTrunc /\ [][NextTrunc]_vars

(***************************************************************************)
(* Hydration of a list of externally linked objects, on its own            *)
(***************************************************************************)
RawObjects(codes) == SeqsUpTo([source : {"external"}, code : codes], MaxObjects)

HydrateArgs ==
    [fn : {"getcitationobjects"}, rawobjects : RawObjects(PmidCodes),
     svc : [PmidCodes -> Transports]]
    \cup [fn : {"getmarkerobjects"}, rawobjects : RawObjects(MarkerCodes),
          svc : [MarkerCodes -> Transports]]
    \cup [fn : {"getdiagnosisobjects"}, rawobjects : RawObjects(DiagnosisCodes),
          svc : [DiagnosisCodes -> Transports]]

InitHydrate ==
    /\ store = <<>>
    /\ last = NoCall
    /\ nops = 0
    /\ tree = NoTree
    /\ disciplined = TRUE
    /\ regmarkers = <<>>
    /\ regassertions = NotDehydrated
    /\ arg \in HydrateArgs
    /\ ret = NoRet
    /\ procs = <<>>

HydrateCitations ==
    /\ ~ret.done /\ arg.fn = "getcitationobjects"
    /\ ret' = [done |-> TRUE, result |-> getcitationobjects(arg.rawobjects, arg.svc, <<>>)]
    /\ UNCHANGED <<libVars, regmarkers, regassertions, arg, procs>>

HydrateMarkers ==
    /\ ~ret.done /\ arg.fn = "getmarkerobjects"
    /\ ret' = [done |-> TRUE, result |-> getmarkerobjects(arg.rawobjects, arg.svc, <<>>)]
    /\ UNCHANGED <<libVars, regmarkers, regassertions, arg, procs>>

HydrateDiagnoses ==
    /\ ~ret.done /\ arg.fn = "getdiagnosisobjects"
    /\ ret' = [done |-> TRUE, result |-> getdiagnosisobjects(arg.rawobjects, arg.svc, <<>>)]
    /\ UNCHANGED <<libVars, regmarkers, regassertions, arg, procs>>

NextHydrate == HydrateCitations \/ HydrateMarkers \/ HydrateDiagnoses

SpecHydrate == InitHydrate /\ [][NextHydrate]_vars

(***************************************************************************)
(* Hydration of a stored record and dehydration of the hydrated form       *)
(***************************************************************************)
\* The assertion lists of the stored records: taxa of the valueset,
\* citations, and the regulating markers of one action.
SimpleAssertion(term, source, codes) ==
    IF codes = <<>> THEN <<>>
    ELSE <<[predicate |-> [term |-> term],
            objects |-> [k \in DOMAIN codes |-> [source |-> source, code |-> codes[k]]]]>>

StoredAssertions ==
    {SimpleAssertion("in_taxon", "valueset", t)
       \o SimpleAssertion("has_citation", "external", c)
       \o r :
        t \in SeqsUpTo(TaxonCodes, MaxObjects),
        c \in SeqsUpTo(PmidCodes, 1),
        r \in {<<>>} \cup {SimpleAssertion(a, "external", <<m>>) :
                              a \in Actions, m \in MarkerCodes}}

RoundArgs ==
    [fn : {"roundtrip"},
     db : {(1 :> [senotype |-> [id |-> 1,
                                provenance |-> [predecessor |-> None, successor |-> None],
                                doi |-> NoneText, name |-> "n1", definition |-> "d1"],
                  submitter |-> [email |-> "a@x.org"],
                  assertions |-> a]) : a \in StoredAssertions},
     svc : {[c \in PmidCodes \cup MarkerCodes |-> "json"]}]

InitRound ==
    /\ store = <<>>
    /\ last = NoCall
    /\ nops = 0
    /\ tree = NoTree
    /\ disciplined = TRUE
    /\ regmarkers = <<>>
    /\ regassertions = NotDehydrated
    /\ arg \in RoundArgs
    /\ ret = NoRet
    /\ procs = <<>>

\* fetchfromdb of the record, then buildassertions of the form it filled.
RoundTrip ==
    /\ ~ret.done
    /\ LET f == fetchfromdb(arg.db, 1, arg.svc)
       IN  ret' = [done |-> TRUE, raised |-> f.raised, form |-> f.form,
                   assertions |-> buildassertions(f.form)]
    /\ UNCHANGED <<libVars, regmarkers, regassertions, arg, procs>>

NextRound == RoundTrip

SpecRound == InitRound /\ [][NextRound]_vars

(***************************************************************************)
(* The version-tree builder on any set of stored records                   *)
(***************************************************************************)
\* A stored record whose provenance names any id or none.
TreeRecord(id, prov) ==
    [senotype |-> [id |-> id, provenance |-> prov, doi |-> NoneText,
                   name |-> "n1", definition |-> "d1"],
     submitter |-> [email |-> "a@x.org"],
     assertions |-> <<>>]

Provenances == [predecessor : {None} \cup Ids, successor : {None} \cup Ids]

TreeStores(k) == {[i \in 1..k |-> TreeRecord(i, p[i])] : p \in [1..k -> Provenances]}

InitTree ==
    /\ \E k \in 0..MaxIds : store \in TreeStores(k)
    /\ last = NoCall
    /\ nops = 0
    /\ tree = NoTree
    /\ disciplined = TRUE
    /\ regmarkers = <<>>
    /\ regassertions = NotDehydrated
    /\ arg = NoArg
    /\ ret = NoRet
    /\ procs = <<>>

NextTree == BuildTree

SpecTree == InitTree /\ [][NextTree]_vars

(***************************************************************************)
(* Two requests served at the same time.  Each request runs writesubmission *)
(* on a SenLib instance of its own; a step is one statement of the request  *)
(* that reads or writes the senotype table (a SELECT, or an upsert with its *)
(* commit), and the steps of the two requests interleave in any order.      *)
(***************************************************************************)
\* The head both requests name, and the ids minted for the new versions.
HeadP == 1
NewQ1 == 2
NewQ2 == 3

\* A request that has not started: the arguments of its writesubmission.
Request(form, new_version_id) ==
    [pc |-> "start",
     form |-> form,
     new_version_id |-> new_version_id,
     senotypeid |-> IF new_version_id = EmptyId THEN form.senotypeid ELSE new_version_id,
     predecessorid |-> IF new_version_id = EmptyId THEN None ELSE form.senotypeid,
     submissionjson |-> EmptyJson,
     revisedjson |-> EmptyJson]

\* Two new versions of the same head, or an update of the head and a new
\* version of it.
RequestPairs ==
    {<<Request(MkForm(HeadP, c1), NewQ1), Request(MkForm(HeadP, c2), NewQ2)>> :
        c1 \in FormContents, c2 \in FormContents}
    \cup
    {<<Request(MkForm(HeadP, c1), EmptyId), Request(MkForm(HeadP, c2), NewQ1)>> :
        c1 \in FormContents, c2 \in FormContents}

\* The store holds the head P, written by an earlier request.
InitConc ==
    /\ \E c \in FormContents :
           store = writesubmission(<<>>, MkForm(HeadP, c), EmptyId, 0).db
    /\ procs \in RequestPairs
    /\ last = NoCall
    /\ nops = 0
    /\ tree = NoTree
    /\ disciplined = TRUE
    /\ regmarkers = <<>>
    /\ regassertions = NotDehydrated
    /\ arg = NoArg
    /\ ret = NoRet

\* buildsubmissionjson: the SELECT of getprovenanceids, and the removal of
\* the DOI from a new version.
ReadProvenance ==
    \E p \in DOMAIN procs :
        /\ procs[p].pc = "start"
        /\ procs' = [procs EXCEPT
                       ![p].pc = "built",
                       ![p].submissionjson =
                           removedoi(buildsubmissionjson(store, procs[p].form, procs[p].senotypeid,
                                                         procs[p].predecessorid),
                                     procs[p].new_version_id)]
        /\ UNCHANGED <<store, last, nops, tree, disciplined, regmarkers, regassertions, arg, ret>>

\* The upsert of the submission.  An update has then returned.
WriteTarget ==
    \E p \in DOMAIN procs :
        /\ procs[p].pc = "built"
        /\ store' = writesenotype(store, procs[p].senotypeid, procs[p].submissionjson, TRUE).db
        /\ procs' = [procs EXCEPT
                       ![p].pc = IF procs[p].new_version_id # EmptyId THEN "written" ELSE "done"]
        /\ UNCHANGED <<last, nops, tree, disciplined, regmarkers, regassertions, arg, ret>>

\* updatesuccessor: the SELECT of the predecessor and the change of its
\* successor in memory.
ReadPredecessor ==
    \E p \in DOMAIN procs :
        /\ procs[p].pc = "written"
        /\ procs' = [procs EXCEPT
                       ![p].pc = "revised",
                       ![p].revisedjson =
                           [getsenotypejson(store, procs[p].predecessorid) EXCEPT
                               !.senotype.provenance.successor = procs[p].new_version_id]]
        /\ UNCHANGED <<store, last, nops, tree, disciplined, regmarkers, regassertions, arg, ret>>

\* updatesuccessor: the upsert of the revised predecessor.
WritePredecessor ==
    \E p \in DOMAIN procs :
        /\ procs[p].pc = "revised"
        /\ store' = writesenotype(store, procs[p].predecessorid, procs[p].revisedjson, TRUE).db
        /\ procs' = [procs EXCEPT ![p].pc = "done"]
        /\ UNCHANGED <<last, nops, tree, disciplined, regmarkers, regassertions, arg, ret>>

NextConc == ReadProvenance \/ WriteTarget \/ ReadPredecessor \/ WritePredecessor

SpecConc == InitConc /\ [][NextConc]_vars

(***************************************************************************)
(* The Library Service called directly: writesubmission with any form and   *)
(* any new_version_id, whatever the store holds                             *)
(***************************************************************************)
WriteVersion ==
    \E form \in Forms, new_version_id \in {EmptyId} \cup Ids, dbfail \in {0, 1, 2} :
        /\ new_version_id # form.senotypeid
        /\ WriteSubmission(form.submitteremail, form, new_version_id, dbfail)

NextLib == WriteVersion \/ BuildTree

SpecLib == Init /\ [][NextLib]_vars

(***************************************************************************)
(* The update route on a request of its own                                *)
(***************************************************************************)
\* The stores of no senotype, of one senotype, and of a senotype with two
\* versions.
RouteStores ==
    LET one(c) == writesubmission(<<>>, MkForm(1, c), EmptyId, 0).db
        two(c, d) == writesubmission(one(c), MkForm(1, d), 2, 0).db
    IN  {<<>>} \cup {one(c) : c \in FormContents}
               \cup {two(c, d) : c \in FormContents, d \in FormContents}

\* The requests: the submitted form, and the id of the new version when a
\* new version was requested.
RouteArgs ==
    [fn : {"update"}, form : Forms, new_version_id : {EmptyId} \cup Ids]

InitRoute ==
    /\ store \in RouteStores
    /\ last = NoCall
    /\ nops = 0
    /\ tree = NoTree
    /\ disciplined = TRUE
    /\ regmarkers = <<>>
    /\ regassertions = NotDehydrated
    /\ arg \in RouteArgs
    /\ ret = NoRet
    /\ procs = <<>>

Route ==
    /\ ~ret.done
    /\ LET r == update(store, arg.form, arg.new_version_id, 0)
       IN  /\ store' = r.db
           /\ ret' = [done |-> TRUE, outcome |-> r.outcome]
    /\ UNCHANGED <<last, nops, tree, disciplined, regmarkers, regassertions, arg, procs>>

NextRoute == Route

SpecRoute == InitRoute /\ [][NextRoute]_vars

(***************************************************************************)
(* In-place updates of a stored senotype without assertions from the form  *)
(* that fetchfromdb filled, the DOI field left as it was shown             *)
(***************************************************************************)
DoiIds == {"10.1", "10.2", "10.3", "10.4", "10.5"}

\* The stored doi: null, or the DOI URL that buildsubmissionjson writes.
StoredDois == {NoneText} \cup {Str(<<DoiPrefix, d>>) : d \in DoiIds}

\* What form.data holds for a text field that was submitted empty: the
\* release of the form library decides between None and ''.
EmptyFieldData == {NoneText, Str(<<>>)}

DoiArgs == [fn : {"doi"}, empty : EmptyFieldData]

InitDoi ==
    /\ \E c \in FormContents, doi \in StoredDois :
           store = [writesubmission(<<>>, MkForm(1, c), EmptyId, 0).db
                       EXCEPT ![1].senotype.doi = doi, ![1].assertions = <<>>]
    /\ last = NoCall
    /\ nops = 0
    /\ tree = NoTree
    /\ disciplined = TRUE
    /\ regmarkers = <<>>
    /\ regassertions = NotDehydrated
    /\ arg \in DoiArgs
    /\ ret = NoRet
    /\ procs = <<>>

\* fetchfromdb fills the form; the form is submitted as it is and written
\* in place.
DoiUpdate ==
    /\ nops < MaxOps
    /\ LET f == fetchfromdb(store, 1, [c \in PmidCodes \cup MarkerCodes |-> "json"])
           form == IF f.form.doi = Str(<<>>)
                   THEN [f.form EXCEPT !.doi = arg.empty]
                   ELSE f.form
       IN  /\ f.raised = ""
           /\ store' = writesubmission(store, form, EmptyId, 0).db
           /\ ret' = [done |-> TRUE, form |-> form]
    /\ nops' = nops + 1
    /\ UNCHANGED <<last, tree, disciplined, regmarkers, regassertions, arg, procs>>

NextDoi == DoiUpdate

SpecDoi == InitDoi /\ [][NextDoi]_vars

(***************************************************************************)
(* buildcontextassertions on forms of its own                               *)
(***************************************************************************)
\* The rows of the table context_assertion_code, in either order.
ContextRows ==
    {<<[context_name |-> <<"age">>, code |-> "C_age"],
       [context_name |-> <<"BMI">>, code |-> "C_bmi"]>>,
     <<[context_name |-> <<"BMI">>, code |-> "C_bmi"],
       [context_name |-> <<"age">>, code |-> "C_age"]>>}

\* The context fields of the Edit form (editform.py 210-219).
ContextFields ==
    {<<"age", "value">>, <<"age", "lowerbound">>, <<"age", "upperbound">>,
     <<"bmi", "value">>, <<"bmi", "lowerbound">>, <<"bmi", "upperbound">>}

ContextForms ==
    {f @@ (<<"age", "unit">> :> Str(<<"year">>)) @@ (<<"bmi", "unit">> :> Str(<<"kg/m2">>)) :
        f \in [ContextFields -> {NoneText, Str(<<"30">>)}]}

\* The field of the form that holds the value of a context (senlib.py
\* 924-937).
ContextValueField(context_name) ==
    IF context_name = <<"age">> THEN <<"age", "value">> ELSE <<"bmi", "value">>

ContextArgs == [fn : {"buildcontextassertions"}, form_data : ContextForms, df : ContextRows]

InitContext ==
    /\ store = <<>>
    /\ last = NoCall
    /\ nops = 0
    /\ tree = NoTree
    /\ disciplined = TRUE
    /\ regmarkers = <<>>
    /\ regassertions = NotDehydrated
    /\ arg \in ContextArgs
    /\ ret = NoRet
    /\ procs = <<>>

BuildContext ==
    /\ ~ret.done
    /\ LET r == buildcontextassertions(arg.form_data, arg.df)
       IN  ret' = [done |-> TRUE, isnone |-> r.isnone, assertions |-> r.assertions]
    /\ UNCHANGED <<libVars, regmarkers, regassertions, arg, procs>>

NextContext == BuildContext

SpecContext == InitContext /\ [][NextContext]_vars

(***************************************************************************)
(* getregmarkerobjects on stored assertions of its own                      *)
(***************************************************************************)
\* A regulating assertion with one marker.
RegAssertions ==
    {[predicate |-> [term |-> a], objects |-> <<[source |-> "external", code |-> m]>>] :
        a \in Actions, m \in MarkerCodes}

RegHydrateArgs ==
    [fn : {"getregmarkerobjects"}, assertions : SeqsUpTo(RegAssertions, 2),
     svc : {[c \in MarkerCodes |-> "json"]}]

InitRegHydrate ==
    /\ store = <<>>
    /\ last = NoCall
    /\ nops = 0
    /\ tree = NoTree
    /\ disciplined = TRUE
    /\ regmarkers = <<>>
    /\ regassertions = NotDehydrated
    /\ arg \in RegHydrateArgs
    /\ ret = NoRet
    /\ procs = <<>>

HydrateRegMarkers ==
    /\ ~ret.done
    /\ ret' = [done |-> TRUE, result |-> getregmarkerobjects(arg.assertions, arg.svc, <<>>)]
    /\ UNCHANGED <<libVars, regmarkers, regassertions, arg, procs>>

NextRegHydrate == HydrateRegMarkers

SpecRegHydrate == InitRegHydrate /\ [][NextRegHydrate]_vars

(***************************************************************************)
(* Properties                                                              *)
(***************************************************************************)
Pred(db, x) == db[x].senotype.provenance.predecessor
Succ(db, x) == db[x].senotype.provenance.successor

\* The step is a call of writesubmission.
WriteStep == nops' = nops + 1

\* The number of records from x back to a record without predecessor,
\* 0 when there is none within the stored records.
RECURSIVE BackDepth(_, _, _)
BackDepth(db, x, fuel) ==
    IF fuel = 0 \/ x \notin DOMAIN db THEN 0
    ELSE IF Pred(db, x) = None THEN 1
    ELSE LET d == BackDepth(db, Pred(db, x), fuel - 1)
         IN  IF d = 0 THEN 0 ELSE d + 1

RECURSIVE ForwardDepth(_, _, _)
ForwardDepth(db, x, fuel) ==
    IF fuel = 0 \/ x \notin DOMAIN db THEN 0
    ELSE IF Succ(db, x) = None THEN 1
    ELSE LET d == ForwardDepth(db, Succ(db, x), fuel - 1)
         IN  IF d = 0 THEN 0 ELSE d + 1

\* The records of the chain of x: those reached from x by predecessor or
\* successor pointers.
RECURSIVE Reach(_, _, _)
Reach(db, S, fuel) ==
    LET T == S \cup {y \in DOMAIN db :
                        \E x \in S : \/ Succ(db, x) = y \/ Pred(db, x) = y
                                     \/ Succ(db, y) = x \/ Pred(db, y) = x}
    IN  IF fuel = 0 \/ T = S THEN S ELSE Reach(db, T, fuel - 1)

ChainOf(db, x) == Reach(db, {x}, Cardinality(DOMAIN db))

\* Disjoint simple linked lists.
WellFormedChains(db) ==
    /\ \A x \in DOMAIN db :
          /\ Pred(db, x) \in {None} \cup (DOMAIN db \ {x})
          /\ Succ(db, x) \in {None} \cup (DOMAIN db \ {x})
    /\ \A x, y \in DOMAIN db : (Succ(db, x) = y) <=> (Pred(db, y) = x)
    /\ \A x \in DOMAIN db :
          /\ BackDepth(db, x, Cardinality(DOMAIN db)) > 0
          /\ ForwardDepth(db, x, Cardinality(DOMAIN db)) > 0
          /\ Cardinality({y \in ChainOf(db, x) : Pred(db, y) = None}) = 1
          /\ Cardinality({y \in ChainOf(db, x) : Succ(db, y) = None}) = 1

\* C1: a successful new-version call from a stored head P to an id Q that
\* is not stored leaves P.successor = Q and Q with doi null,
\* predecessor P and successor null.
C1_NewVersionCreation ==
    [][ (/\ WriteStep
         /\ last'.op = "new_version"
         /\ last'.outcome = "ok"
         /\ IsHead(store, last'.predecessorid)
         /\ last'.senotypeid \notin DOMAIN store)
        => LET P == last'.predecessorid
               Q == last'.senotypeid
           IN  /\ {P, Q} \subseteq DOMAIN store'
               /\ Succ(store', P) = Q
               /\ store'[Q].senotype.doi = NoneText
               /\ Pred(store', Q) = P
               /\ Succ(store', Q) = None ]_vars

\* A new version of a published P was written from a form that carried a doi.
C1_Witness ==
    /\ last.op = "new_version" /\ last.outcome = "ok" /\ disciplined
    /\ ~last.form.doi.isnone
    /\ ~store[last.predecessorid].senotype.doi.isnone
    /\ Succ(store, last.predecessorid) = last.senotypeid
    /\ store[last.senotypeid].senotype.doi = NoneText

\* C2: as long as every call returned and every new-version call named a
\* stored head as predecessor and an unused id as target, the pointers form
\* disjoint simple linked lists with one root and one head each.
C2_ProvenanceChains == disciplined => WellFormedChains(store)

\* Three calls built a chain of three versions.
C2_Witness ==
    /\ disciplined
    /\ \E x, y, z \in DOMAIN store :
          /\ Pred(store, x) = None /\ Succ(store, x) = y
          /\ Succ(store, y) = z /\ Succ(store, z) = None

\* C3: no step changes name, definition or assertions of a stored record
\* whose doi is non-null.
C3_PublishedImmutable ==
    [][ \A id \in DOMAIN store :
            ~store[id].senotype.doi.isnone
            => /\ id \in DOMAIN store'
               /\ store'[id].senotype.name = store[id].senotype.name
               /\ store'[id].senotype.definition = store[id].senotype.definition
               /\ store'[id].assertions = store[id].assertions ]_vars

\* C4: an in-place write to a stored unpublished record of another
\* submitter is refused and leaves the store as it was.
C4_AuthorizationEnforced ==
    [][ (/\ WriteStep
         /\ last'.op = "update"
         /\ last'.senotypeid \in DOMAIN store
         /\ ~Bool(store[last'.senotypeid].senotype.doi)
         /\ store[last'.senotypeid].submitter.email # last'.userid)
        => (last'.outcome # "ok" /\ store' = store) ]_vars

\* C5: on well-formed chains the tree builder returns, the version of a
\* record is its distance from the oldest record of its chain (1 for the
\* oldest, N for the head of a chain of N), and the nodes nest from the
\* head down to the oldest record, which is the only one without child.
C5_VersionNumbers ==
    (tree.built /\ WellFormedChains(store))
    => /\ tree.err = ""
       /\ DOMAIN tree.version_map = DOMAIN store
       /\ \A x \in DOMAIN store :
             /\ tree.version_map[x] = BackDepth(store, x, Cardinality(DOMAIN store))
             /\ Succ(store, x) # None
                  => tree.version_map[Succ(store, x)] = tree.version_map[x] + 1
             /\ Succ(store, x) = None
                  => tree.version_map[x] = Cardinality(ChainOf(store, x))
             /\ tree.children[x] = IF Pred(store, x) = None THEN <<>>
                                   ELSE <<Pred(store, x)>>

\* The tree of a chain of three versions was built.
C5_Witness ==
    /\ tree.built /\ tree.err = "" /\ WellFormedChains(store)
    /\ \E x \in DOMAIN store :
          /\ tree.version_map[x] = 3
          /\ Succ(store, x) = None
          /\ Len(tree.children[x]) = 1

\* C6: a node is editable iff the doi is absent or empty, authorized iff
\* the submitter email is the user's, and its state is the one of the three
\* that these two give.
C6_NodeState ==
    (tree.built /\ tree.err = "")
    => \A x \in DOMAIN store :
          LET node == tree.node_map[x]
              editable == store[x].senotype.doi.isnone \/ store[x].senotype.doi.text = <<>>
              authorized == store[x].submitter.email = tree.userid
          IN  /\ ("editable" \in node.classes) <=> editable
              /\ ("authorized" \in node.classes) <=> authorized
              /\ node.state \in {"editable", "you are not unauthorized to edit",
                                 "published; read-only"}
              /\ (node.state = "editable") <=> (editable /\ authorized)
              /\ (node.state = "you are not unauthorized to edit")
                    <=> (editable /\ ~authorized)
              /\ (node.state = "published; read-only") <=> ~editable

\* One tree shows all three states, the published one for its own submitter.
C6_Witness ==
    /\ tree.built /\ tree.err = ""
    /\ \E x, y, z \in DOMAIN store :
          /\ tree.node_map[x].state = "editable"
          /\ store[x].senotype.doi.isnone
          /\ tree.node_map[y].state = "you are not unauthorized to edit"
          /\ tree.node_map[z].state = "published; read-only"

\* C7: an in-place write that repeats the call before it, which returned,
\* leaves the store as that call left it.
C7_IdempotentUpdate ==
    [][ (/\ WriteStep
         /\ last'.op = "update"
         /\ last'.repeated
         /\ last'.outcome = "ok")
        => store' = store ]_vars

\* The same in-place write was made twice to a record that has a predecessor.
C7_Witness ==
    /\ last.op = "update" /\ last.outcome = "ok" /\ last.repeated
    /\ Pred(store, last.senotypeid) # None
    /\ store[last.senotypeid].senotype.name = last.form.senotypename

\* C8: an in-place write that returns keeps the provenance of a stored
\* target, writes null provenance for a target that was not stored, and
\* changes no other record.
C8_UpdateProvenance ==
    [][ (/\ WriteStep
         /\ last'.op = "update"
         /\ last'.outcome = "ok")
        => LET t == last'.senotypeid
           IN  /\ DOMAIN store' = (DOMAIN store) \cup {t}
               /\ \A i \in DOMAIN store : i # t => store'[i] = store[i]
               /\ t \in DOMAIN store
                    => store'[t].senotype.provenance = store[t].senotype.provenance
               /\ t \notin DOMAIN store
                    => store'[t].senotype.provenance =
                          [predecessor |-> None, successor |-> None] ]_vars

\* An in-place write to a record that is a later version of another one.
C8_Witness ==
    /\ last.op = "update" /\ last.outcome = "ok"
    /\ Pred(store, last.senotypeid) # None
    /\ Cardinality(DOMAIN store) >= 2

\* C9: a new-version call whose second upsert met a DatabaseError after
\* the first was committed ends in an error, which is not the outcome of a
\* failed validation.
C9_PartialWriteIsError ==
    (last.op = "new_version" /\ last.dbfail = 2)
    => /\ last.outcome # "ok"
       /\ last.outcome # "invalid"
       /\ last.outcome = "abort500"

\* The new record is stored and its predecessor still has no successor.
C9_Witness ==
    /\ last.op = "new_version" /\ last.dbfail = 2 /\ last.outcome = "abort500"
    /\ last.senotypeid \in DOMAIN store
    /\ last.predecessorid \in DOMAIN store
    /\ last.predecessorid # last.senotypeid
    /\ Pred(store, last.senotypeid) = last.predecessorid
    /\ Succ(store, last.predecessorid) = None

EntriesWith(act) == SelectSeq(regmarkers, LAMBDA m : m.action = act)

AssertionsWith(act) ==
    {i \in DOMAIN regassertions.assertions :
        regassertions.assertions[i].predicate.term = act}

\* C10: dehydration of the regulating markers gives exactly one assertion
\* for each action that occurs among the entries, holding exactly the
\* entries with that action, and no assertion twice.
C10_RegMarkerPartition ==
    regassertions.done =>
        \A act \in Actions :
            LET entries == EntriesWith(act)
                idx == AssertionsWith(act)
            IN  /\ entries = <<>> => idx = {}
                /\ entries # <<>> =>
                      /\ Cardinality(idx) = 1
                      /\ \A i \in idx :
                            regassertions.assertions[i].objects =
                                [k \in 1..Len(entries) |-> RegObj(entries[k])]

\* C12: for a max length >= 0, truncateddisplaytext gives
\* "id (first max characters of the description...)" for a description
\* longer than max and "id (description)" otherwise; the two calls of the
\* documentation give "GO:001 (a very lon...)" and "GO:002 (short)".
C12_Truncation ==
    (ret.done /\ arg.fn = "truncateddisplaytext" /\ arg.trunclength >= 0)
    => /\ Len(arg.description) > arg.trunclength
            => ret.text = arg.displayid \o <<" ", "(">>
                          \o SubSeq(arg.description, 1, arg.trunclength)
                          \o <<".", ".", ".", ")">>
       /\ Len(arg.description) <= arg.trunclength
            => ret.text = arg.displayid \o <<" ", "(">> \o arg.description \o <<")">>
       /\ arg = TruncExample1
            => ret.text = <<"G", "O", ":", "0", "0", "1", " ", "(", "a", " ", "v", "e", "r", "y", " ", "l", "o", "n", ".", ".", ".", ")">>
       /\ arg = TruncExample2
            => ret.text = <<"G", "O", ":", "0", "0", "2", " ", "(", "s", "h", "o", "r", "t", ")">>

\* The long description of the documentation was cut at ten characters.
C12_Witness ==
    /\ ret.done /\ arg = TruncExample1
    /\ Len(ret.text) = 6 + 2 + 10 + 3 + 1
    /\ SubSeq(ret.text, 19, 21) = <<".", ".", ".">>

\* The transports that are a failure of the resolver call after its retries.
TransportFailures == {"ConnectionError", "RetryError"}

\* C16: the hydration of a list of externally linked objects returns one
\* object for each raw object even when the resolver call fails for some of
\* them, with the resolved label for every object whose call did not fail.
C16_ResolverFailureTolerated ==
    (ret.done /\ arg.fn \in {"getcitationobjects", "getmarkerobjects"}
       /\ \A k \in DOMAIN arg.rawobjects :
             arg.svc[arg.rawobjects[k].code] \in TransportFailures \cup {"json"})
    => /\ ret.result.raised = ""
       /\ Len(ret.result.objects) = Len(arg.rawobjects)
       /\ \A k \in DOMAIN arg.rawobjects :
             /\ ret.result.objects[k].code = arg.rawobjects[k].code
             /\ arg.svc[arg.rawobjects[k].code] = "json"
                  => ret.result.objects[k].term = Str(Label(arg.rawobjects[k].code))

\* The {predicate, code} pairs of a list of assertions.
PairsOf(assertions) ==
    UNION {{<<assertions[i].predicate.term, assertions[i].objects[k].code>> :
               k \in DOMAIN assertions[i].objects} : i \in DOMAIN assertions}

\* C11: hydrating the assertions of a stored record into the form and
\* dehydrating the form again gives the {predicate, code} pairs of the record.
C11_RoundTrip ==
    (ret.done /\ arg.fn = "roundtrip")
    => /\ ret.raised = ""
       /\ PairsOf(ret.assertions) = PairsOf(arg.db[1].assertions)

RECURSIVE SuccReaches(_, _, _, _)
SuccReaches(db, x, y, fuel) ==
    /\ fuel > 0
    /\ x \in DOMAIN db
    /\ Truthy(Succ(db, x))
    /\ \/ Succ(db, x) = y
       \/ SuccReaches(db, Succ(db, x), y, fuel - 1)

OnCycle(db, x) == SuccReaches(db, x, x, Cardinality(DOMAIN db))

\* C14: the tree builder ends its forward walk on every set of records,
\* those with a cycle of successor pointers included, without meeting a
\* record more often than there are records.
C14_WalkTerminates ==
    (tree.built /\ \E x \in DOMAIN store : OnCycle(store, x))
    => tree.err # "RecursionError"

\* The records that the forward walk from the records without predecessor
\* reaches.
RECURSIVE WalkFrom(_, _, _)
WalkFrom(db, S, fuel) ==
    LET T == S \cup {Succ(db, x) : x \in {y \in S : Truthy(Succ(db, y))}}
        U == T \cap DOMAIN db
    IN  IF fuel = 0 \/ U = S THEN S ELSE WalkFrom(db, U, fuel - 1)

Reached(db) ==
    WalkFrom(db, {x \in DOMAIN db : ~Truthy(Pred(db, x))}, Cardinality(DOMAIN db))

\* C15: when a stored record is not reached by the forward walk, the tree
\* builder does not end in the unhandled lookup of its version number.
C15_UnreachedRecordReported ==
    (tree.built /\ tree.err # "RecursionError"
       /\ \E x \in DOMAIN store : x \notin Reached(store))
    => tree.err # "KeyError"

\* C17: no step of the Library Service (in-place update, new senotype, new
\* version, failed validation, tree build, hydration) removes an id from
\* the store.
C17_NeverDeleted ==
    [][ /\ DOMAIN store \subseteq DOMAIN store'
        /\ \A i \in DOMAIN store : store'[i].senotype.id = store[i].senotype.id ]_vars

\* The oldest of three stored versions was written in place after the
\* other two had been created.
C17_Witness ==
    /\ last.op = "update" /\ last.outcome = "ok" /\ nops = 4
    /\ Cardinality(DOMAIN store) = 3
    /\ last.senotypeid \in DOMAIN store
    /\ Pred(store, last.senotypeid) = None
    /\ Succ(store, last.senotypeid) # None

\* The ids of the nodes under a node, the node included, by the children
\* lists of the tree.
RECURSIVE NodesUnder(_, _, _)
NodesUnder(ch, ids, fuel) ==
    IF ids = <<>> \/ fuel = 0 THEN <<>>
    ELSE <<Head(ids)>> \o NodesUnder(ch, ch[Head(ids)], fuel - 1)
         \o NodesUnder(ch, Tail(ids), fuel)

Heads(db) == {x \in DOMAIN db : Succ(db, x) = None}

\* C18: on well-formed chains (none included) the builder returns one
\* top-level node whose children are the "new" leaf, editable and
\* authorized, and one group node for each head; a group node has the node
\* of its head as only child, the name of the head and the version number
\* of the head as its count; the node of every other record is a child of
\* the node of its successor and of no other node, and every record is in
\* the tree exactly once.
C18_TreeShape ==
    (tree.built /\ WellFormedChains(store))
    => LET top == tree.senotype_parent
           groups == SubSeq(top.children, 2, Len(top.children))
           under == NodesUnder(tree.children,
                               [k \in DOMAIN groups |-> groups[k].children[1]],
                               Cardinality(DOMAIN store) + 1)
       IN  /\ tree.err = ""
           /\ top.id = "Senotype"
           /\ Len(top.children) = 1 + Cardinality(Heads(store))
           /\ top.children[1].id = "new"
           /\ top.children[1].classes = {"editable", "authorized"}
           /\ top.children[1].children = <<>>
           /\ {groups[k].id : k \in DOMAIN groups} = Heads(store)
           /\ \A k \in DOMAIN groups :
                 /\ groups[k].children = <<groups[k].id>>
                 /\ groups[k].name = store[groups[k].id].senotype.name
                 /\ groups[k].versions = tree.version_map[groups[k].id]
                 /\ groups[k].versions = Cardinality(ChainOf(store, groups[k].id))
           /\ \A x \in DOMAIN store, y \in DOMAIN store :
                 (\E k \in DOMAIN tree.children[y] : tree.children[y][k] = x)
                    <=> Succ(store, x) = y
           /\ \A y \in DOMAIN store : Len(tree.children[y]) <= 1
           /\ Len(under) = Cardinality(DOMAIN store)
           /\ {under[k] : k \in DOMAIN under} = DOMAIN store

\* The tree of two senotypes, one of them with two versions.
C18_Witness ==
    /\ tree.built /\ tree.err = "" /\ WellFormedChains(store)
    /\ Cardinality(DOMAIN store) = 3
    /\ Len(tree.senotype_parent.children) = 3
    /\ \E k \in 2..3 : tree.senotype_parent.children[k].versions = 2
    /\ \E k \in 2..3 : tree.senotype_parent.children[k].versions = 1

\* Both requests have returned.
Completed == procs # <<>> /\ \A p \in DOMAIN procs : procs[p].pc = "done"

\* The requests are two new versions of the same head.
TwoNewVersions ==
    /\ Len(procs) = 2
    /\ \A p \in DOMAIN procs : procs[p].new_version_id # EmptyId
    /\ procs[1].predecessorid = procs[2].predecessorid
    /\ procs[1].new_version_id # procs[2].new_version_id

\* C19: once two concurrent new-version requests that name the same head P
\* (with distinct new ids) have completed, P.successor names a stored record
\* whose predecessor is P, and every stored record whose predecessor is P is
\* the one that P.successor names.
C19_ChainStaysList ==
    (Completed /\ TwoNewVersions) =>
        LET P == procs[1].predecessorid
        IN  /\ Succ(store, P) \in DOMAIN store
            /\ Pred(store, Succ(store, P)) = P
            /\ \A x \in DOMAIN store : Pred(store, x) = P => Succ(store, P) = x

\* The requests are an update of P and a new version of P.
UpdateAndNewVersion ==
    /\ Len(procs) = 2
    /\ procs[1].new_version_id = EmptyId
    /\ procs[2].new_version_id # EmptyId
    /\ procs[2].predecessorid = procs[1].senotypeid

\* C20: once an in-place update of P and a concurrent new version Q of P
\* have completed, the stored P has successor = Q.
C20_SuccessorSurvivesUpdate ==
    (Completed /\ UpdateAndNewVersion) =>
        Succ(store, procs[1].senotypeid) = procs[2].new_version_id

\* C21: on every store reached from the empty store by writesubmission calls,
\* any upsert of which may fail, the tree builder succeeds: it ends without
\* an exception and every stored record has a version number.
C21_BuilderSucceeds ==
    tree.built =>
        /\ tree.err = ""
        /\ \A x \in DOMAIN store : x \in DOMAIN tree.version_map

\* C22: a successor pointer is written once: no step changes a stored
\* record's non-null provenance.successor to a different id.
C22_SuccessorWriteOnce ==
    [][\A x \in DOMAIN store :
           Truthy(Succ(store, x)) => (x \in DOMAIN store' /\ Succ(store', x) = Succ(store, x))]_vars

\* C23: a new-version call of writesubmission whose predecessor is not in
\* the store leaves the store as it was.
C23_MissingPredecessorNoWrite ==
    [][(/\ nops' = nops + 1
        /\ last'.op = "new_version"
        /\ Truthy(last'.predecessorid)
        /\ last'.predecessorid \notin DOMAIN store)
       => store' = store]_vars

\* The records shown under the k-th group node of the tree.
GroupMembers(k) ==
    LET g == tree.senotype_parent.children[k]
        under == NodesUnder(tree.children, g.children, Cardinality(DOMAIN store) + 1)
    IN  {under[j] : j \in DOMAIN under}

\* C24: when the builder returns, every record with predecessor = null is
\* shown as a chain of its own: it is under a group node, and no group node
\* holds two of them, also when two of them name the same successor.
C24_RootsSeparateChains ==
    (tree.built /\ tree.err = "")
    => LET roots == {x \in DOMAIN store : Pred(store, x) = None}
           groups == 2..Len(tree.senotype_parent.children)
       IN  /\ \A x \in roots : \E k \in groups : x \in GroupMembers(k)
           /\ \A x \in roots, y \in roots :
                 x # y => ~\E k \in groups : x \in GroupMembers(k) /\ y \in GroupMembers(k)

\* C25: a request to the update route whose validation fails leaves the
\* store as it was, for an update, a new senotype and a new version.
C25_InvalidWritesNothing ==
    [][(arg.fn = "update" /\ ret'.done /\ ret'.outcome # "ok") => store' = store]_vars

\* A request for a new version of a stored senotype ended in the validation.
C25_Witness ==
    /\ arg.fn = "update" /\ ret.done
    /\ ret.outcome \in {"invalid", "AttributeError"}
    /\ arg.new_version_id # EmptyId
    /\ arg.form.senotypeid \in DOMAIN store
    /\ arg.new_version_id \notin DOMAIN store

\* C26: an in-place update from the hydrated form, the DOI field unchanged,
\* persists the doi that was stored: a DOI URL stays the same URL and a
\* null doi stays null.
C26_DoiRoundTrip ==
    [][(arg.fn = "doi" /\ nops' = nops + 1)
       => store'[1].senotype.doi = store[1].senotype.doi]_vars

\* C27: buildcontextassertions returns a list, and for every context of the
\* table whose value the form carries the list holds a has_context
\* assertion with an object of that context and that value.
C27_ContextDehydrated ==
    (ret.done /\ arg.fn = "buildcontextassertions")
    => /\ ~ret.isnone
       /\ \A k \in DOMAIN arg.df :
             LET name == arg.df[k].context_name
                 value == FormGet(arg.form_data, ContextValueField(name))
             IN  ~value.isnone
                 => \E i \in DOMAIN ret.assertions :
                       /\ ret.assertions[i].predicate.term = "has_context"
                       /\ \E j \in DOMAIN ret.assertions[i].objects :
                             /\ ret.assertions[i].objects[j].term = name
                             /\ ret.assertions[i].objects[j].value = value

\* The text before the parenthetical display label " (label)", the whole
\* text when it has none.
RECURSIVE StripLabel(_)
StripLabel(s) ==
    IF s = <<>> THEN <<>>
    ELSE IF Len(s) >= 2 /\ s[1] = " " /\ s[2] = "(" THEN <<>>
    ELSE <<Head(s)>> \o StripLabel(Tail(s))

\* The objects that the assertions hold for a predicate term.
ObjectsOf(assertions, term) ==
    LET hits == SelectSeq(assertions, LAMBDA a : a.predicate.term = term)
    IN  IF hits = <<>> THEN <<>> ELSE hits[1].objects

\* C28: for every field of a simple assertion the dehydration gives one
\* object {source, code} per submitted value, none for a field without
\* values, and the code is the submitted value without the parenthetical
\* display label that the hydration added.
C28_SimpleDehydration ==
    (ret.done /\ arg.fn = "roundtrip" /\ ret.raised = "")
    => \A i \in DOMAIN AssertionFields :
          LET key == AssertionFields[i]
              objects == ObjectsOf(ret.assertions, get_field_metadata(key, "predicate_term"))
          IN  /\ Len(objects) = Len(ret.form[key])
              /\ \A k \in DOMAIN objects :
                    /\ objects[k].source = get_field_metadata(key, "object_source")
                    /\ objects[k].code = StripLabel(ret.form[key][k])

\* C29: when the service answers for every code, holding it or not, the
\* hydration of a list of externally linked objects returns one object for
\* each stored object, in the stored order, with the stored code and with a
\* label, a placeholder for a code that the service does not hold.
C29_UnknownCodesKept ==
    (ret.done
       /\ arg.fn \in {"getcitationobjects", "getmarkerobjects", "getdiagnosisobjects"}
       /\ \A k \in DOMAIN arg.rawobjects :
             arg.svc[arg.rawobjects[k].code] \in {"json", "unknown"})
    => /\ ret.result.raised = ""
       /\ Len(ret.result.objects) = Len(arg.rawobjects)
       /\ \A k \in DOMAIN arg.rawobjects :
             /\ ret.result.objects[k].code = arg.rawobjects[k].code
             /\ ~ret.result.objects[k].term.isnone

\* The markers of the regulating assertions, each with the predicate term
\* of its assertion, in the stored order.
RECURSIVE TaggedMarkers(_)
TaggedMarkers(assertions) ==
    IF assertions = <<>> THEN <<>>
    ELSE LET a == Head(assertions)
             own == IF a.predicate.term \in Actions
                    THEN [k \in DOMAIN a.objects |->
                             [code |-> a.objects[k].code, type |-> a.predicate.term]]
                    ELSE <<>>
         IN  own \o TaggedMarkers(Tail(assertions))

\* C30: getregmarkerobjects returns one entry for every object of every
\* regulating assertion, tagged with the predicate term of its assertion;
\* the markers of an earlier assertion are kept when a later one follows.
C30_AllRegMarkersHydrated ==
    (ret.done /\ arg.fn = "getregmarkerobjects")
    => /\ ret.result.raised = ""
       /\ [k \in DOMAIN ret.result.objects |->
              [code |-> ret.result.objects[k].code, type |-> ret.result.objects[k].type]]
          = TaggedMarkers(arg.assertions)

====
